---- MODULE Spec2Model ----
(***************************************************************************)
(* Model of the single-position backtest engine of BaseStrategy            *)
(* (src/strategy/base_strategy.py): backtest(), calculate_performance()    *)
(* and run(); of the trade statistics of src/run_macd_strategy.py; and of  *)
(* the signal generators of BollingerStrategy and MACDStrategy.            *)
(*                                                                         *)
(* The DataFrame self.data is modelled column by column; every column is a *)
(* function over the 0-based row positions 0..n-1 that the code addresses  *)
(* with .iloc[].  Column names:                                            *)
(*   close          data['收盘']      signal         data['信号']          *)
(*   cash           data['资金']      shares_held    data['持仓']          *)
(*   position_value data['持仓价值']  total_equity   data['总资产']        *)
(*   cummax         data['累计最大资产']  drawdown   data['回撤']          *)
(*   upper          data['上轨']      lower          data['下轨']          *)
(*   index          data.index, as day numbers                             *)
(* Closing prices are floats (yuan), and so is everything computed from    *)
(* them: 资金, 持仓价值, 总资产, 累计最大资产 and 回撤 hold IEEE 754        *)
(* binary64 values, and +, -, *, / and int() on them are the rounded       *)
(* operations of the Python interpreter.  持仓 and 信号 hold integers.     *)
(* The chained assignments data[col].iloc[i] = v are taken to write        *)
(* through to the frame, as they do in the pandas versions the scripts     *)
(* were written for.                                                       *)
(***************************************************************************)
EXTENDS Integers, Sequences, FiniteSets, TLC

\* Bounds of the model.
MaxBars == 4
MaxPrice == 3
MaxSignalBars == 4
MaxRunBars == 3
MaxWindow == 3

Signals == {-1, 0, 1}

\* BaseStrategy.__init__, line 25: self.capital = 100000
InitialCapital == 100000

(* IEEE 754 binary64 arithmetic, as Python's float and numpy's float64      *)
(* carry it out: every operation returns the double nearest to the exact   *)
(* result, ties to the even mantissa.  A double is the record              *)
(* [s, m, e] standing for s * m * 2^e, with m a natural number of exactly   *)
(* 53 bits (or zero) held as a sequence of limbs, least significant first. *)

\* limbs are 14 bits wide, so that a product of two limbs stays below 2^31
LimbBits == 14
Base == 2^LimbBits
MantissaBits == 53

RECURSIVE Trim(_)
Trim(a) ==
    IF a = <<>> THEN <<>>
    ELSE IF a[Len(a)] = 0 THEN Trim(SubSeq(a, 1, Len(a) - 1))
    ELSE a

Limb(a, k) == IF k >= 1 /\ k <= Len(a) THEN a[k] ELSE 0
Rest(a) == IF a = <<>> THEN <<>> ELSE Tail(a)

RECURSIVE NatFromInt(_)
NatFromInt(n) ==
    IF n = 0 THEN <<>> ELSE <<n % Base>> \o NatFromInt(n \div Base)

RECURSIVE NatToInt(_)
NatToInt(a) ==
    IF a = <<>> THEN 0 ELSE Head(a) + Base * NatToInt(Tail(a))

RECURSIVE NatAddCarry(_, _, _)
NatAddCarry(a, b, carry) ==
    IF a = <<>> /\ b = <<>>
    THEN (IF carry = 0 THEN <<>> ELSE <<carry>>)
    ELSE LET x == Limb(a, 1) + Limb(b, 1) + carry
         IN <<x % Base>> \o NatAddCarry(Rest(a), Rest(b), x \div Base)

NatAdd(a, b) == NatAddCarry(a, b, 0)

\* a - b for a >= b
RECURSIVE NatSubBorrow(_, _, _)
NatSubBorrow(a, b, borrow) ==
    IF a = <<>> THEN <<>>
    ELSE LET x == Head(a) - Limb(b, 1) - borrow
         IN <<x % Base>> \o
            NatSubBorrow(Tail(a), Rest(b), IF x < 0 THEN 1 ELSE 0)

NatSub(a, b) == Trim(NatSubBorrow(a, b, 0))

\* -1, 0, 1 as a < b, a = b, a > b; both without leading zero limbs
RECURSIVE NatCmpFrom(_, _, _)
NatCmpFrom(a, b, k) ==
    IF k = 0 THEN 0
    ELSE IF a[k] < b[k] THEN 0 - 1
    ELSE IF a[k] > b[k] THEN 1
    ELSE NatCmpFrom(a, b, k - 1)

NatCmp(a, b) ==
    IF Len(a) < Len(b) THEN 0 - 1
    ELSE IF Len(a) > Len(b) THEN 1
    ELSE NatCmpFrom(a, b, Len(a))

\* a * k + carry for a limb k
RECURSIVE NatMulLimb(_, _, _)
NatMulLimb(a, k, carry) ==
    IF a = <<>>
    THEN (IF carry = 0 THEN <<>> ELSE <<carry>>)
    ELSE LET x == Head(a) * k + carry
         IN <<x % Base>> \o NatMulLimb(Tail(a), k, x \div Base)

RECURSIVE NatMulAll(_, _)
NatMulAll(a, b) ==
    IF b = <<>> THEN <<>>
    ELSE NatAdd(NatMulLimb(a, Head(b), 0), <<0>> \o NatMulAll(a, Tail(b)))

NatMul(a, b) == Trim(NatMulAll(a, b))

Zeros(n) == [k \in 1..n |-> 0]

\* a * 2^k
NatShl(a, k) ==
    IF a = <<>> THEN <<>>
    ELSE Zeros(k \div LimbBits) \o NatMulLimb(a, 2^(k % LimbBits), 0)

\* quotient of a by a limb d, most significant limb first
RECURSIVE NatDivLimbFrom(_, _, _, _)
NatDivLimbFrom(a, d, k, rem) ==
    IF k = 0 THEN [q |-> <<>>, r |-> rem]
    ELSE LET x == rem * Base + a[k]
             low == NatDivLimbFrom(a, d, k - 1, x % d)
         IN [q |-> Append(low.q, x \div d), r |-> low.r]

NatDivLimb(a, d) ==
    LET res == NatDivLimbFrom(a, d, Len(a), 0)
    IN [q |-> Trim(res.q), r |-> res.r]

\* floor(a / 2^k)
NatShr(a, k) ==
    IF k \div LimbBits >= Len(a) THEN <<>>
    ELSE NatDivLimb(SubSeq(a, k \div LimbBits + 1, Len(a)),
                    2^(k % LimbBits)).q

\* a is a multiple of 2^k
NatLowZero(a, k) ==
    /\ \A j \in 1..(k \div LimbBits) : Limb(a, j) = 0
    /\ Limb(a, k \div LimbBits + 1) % 2^(k % LimbBits) = 0

\* bit k of a, bit 0 the least significant
NatBit(a, k) == (Limb(a, k \div LimbBits + 1) \div 2^(k % LimbBits)) % 2

RECURSIVE IntBitLen(_)
IntBitLen(n) == IF n = 0 THEN 0 ELSE 1 + IntBitLen(n \div 2)

NatBitLen(a) ==
    IF a = <<>> THEN 0 ELSE (Len(a) - 1) * LimbBits + IntBitLen(a[Len(a)])

FZero == [s |-> 1, m |-> <<>>, e |-> 0]

\* the double nearest to s * M * 2^E; sticky says that the exact value lies
\* strictly above M * 2^E and below (M + 1) * 2^E (M then has 55 bits or more)
FRound(s, M, E, sticky) ==
    LET len == NatBitLen(M)
        cut == len - MantissaBits
    IN IF len = 0 THEN FZero
       ELSE IF cut <= 0
       THEN [s |-> s, m |-> NatShl(M, 0 - cut), e |-> E + cut]
       ELSE LET q == NatShr(M, cut)
                half == NatBit(M, cut - 1) = 1
                below == ~NatLowZero(M, cut - 1) \/ sticky
                up == half /\ (below \/ Limb(q, 1) % 2 = 1)
                r == IF up THEN NatAdd(q, <<1>>) ELSE q
            IN IF NatBitLen(r) > MantissaBits
               THEN [s |-> s, m |-> NatShr(r, 1), e |-> E + cut + 1]
               ELSE [s |-> s, m |-> r, e |-> E + cut]

\* float(n) for an integer n
FFromInt(n) ==
    IF n < 0 THEN FRound(0 - 1, NatFromInt(0 - n), 0, FALSE)
    ELSE FRound(1, NatFromInt(n), 0, FALSE)

\* the double a decimal literal n / scale denotes (scale a power of ten)
FFromDecimal(n, scale) ==
    LET res == NatDivLimb(NatShl(NatFromInt(n), 5 * LimbBits), scale)
    IN FRound(1, res.q, 0 - 5 * LimbBits, res.r # 0)

FNeg(x) == IF x.m = <<>> THEN x ELSE [x EXCEPT !.s = 0 - x.s]

\* -1, 0, 1 as |x| < |y|, |x| = |y|, |x| > |y|
FCmpAbs(x, y) ==
    IF x.m = <<>> THEN (IF y.m = <<>> THEN 0 ELSE 0 - 1)
    ELSE IF y.m = <<>> THEN 1
    ELSE IF x.e < y.e THEN 0 - 1
    ELSE IF x.e > y.e THEN 1
    ELSE NatCmp(x.m, y.m)

FSign(x) == IF x.m = <<>> THEN 0 ELSE x.s

\* -1, 0, 1 as x < y, x = y, x > y
FCmp(x, y) ==
    IF FSign(x) # FSign(y) THEN (IF FSign(x) < FSign(y) THEN 0 - 1 ELSE 1)
    ELSE FSign(x) * FCmpAbs(x, y)

FLess(x, y) == FCmp(x, y) < 0
FLessEq(x, y) == FCmp(x, y) <= 0

\* x + y for |x| >= |y|, y not zero
FAddOrdered(x, y) ==
    LET gap == x.e - y.e
        far == gap > MantissaBits + 3
        \* a y too small to reach the rounding position only makes the sum
        \* inexact
        big == IF far THEN NatShl(x.m, 3) ELSE NatShl(x.m, gap)
        exp == IF far THEN x.e - 3 ELSE y.e
    IN IF x.s = y.s
       THEN FRound(x.s, IF far THEN big ELSE NatAdd(big, y.m), exp, far)
       ELSE FRound(x.s,
                   IF far THEN NatSub(big, <<1>>) ELSE NatSub(big, y.m),
                   exp, far)

FAdd(x, y) ==
    IF y.m = <<>> THEN x
    ELSE IF x.m = <<>> THEN y
    ELSE IF FCmpAbs(x, y) >= 0 THEN FAddOrdered(x, y)
    ELSE FAddOrdered(y, x)

FSub(x, y) == FAdd(x, FNeg(y))

FMul(x, y) ==
    IF x.m = <<>> \/ y.m = <<>> THEN FZero
    ELSE FRound(x.s * y.s, NatMul(x.m, y.m), x.e + y.e, FALSE)

\* one limb of the quotient of r * Base by d, for r < d and d of four limbs
\* with the top bit set: the estimate from the leading limbs is at most two
\* too large
RECURSIVE DivCorrect(_, _, _, _)
DivCorrect(r, d, digit, product) ==
    IF NatCmp(product, r) > 0
    THEN DivCorrect(r, d, digit - 1, NatSub(product, d))
    ELSE [digit |-> digit, r |-> NatSub(r, product)]

DivDigit(r, d) ==
    LET shifted == IF r = <<>> THEN <<>> ELSE <<0>> \o r
        guess == (Limb(shifted, 5) * Base + Limb(shifted, 4)) \div d[4]
        digit == IF guess > Base - 1 THEN Base - 1 ELSE guess
    IN DivCorrect(shifted, d, digit, Trim(NatMulLimb(d, digit, 0)))

RECURSIVE DivDigits(_, _, _)
DivDigits(r, d, count) ==
    IF count = 0 THEN [q |-> <<>>, r |-> r]
    ELSE LET top == DivDigit(r, d)
             low == DivDigits(top.r, d, count - 1)
         IN [q |-> Append(low.q, top.digit), r |-> low.r]

\* x / y for y not zero
FDiv(x, y) ==
    IF x.m = <<>> THEN FZero
    ELSE LET d == NatShl(y.m, 3)
             n == NatShl(x.m, 3)
             first == IF NatCmp(n, d) >= 0 THEN 1 ELSE 0
             r == IF first = 1 THEN NatSub(n, d) ELSE n
             res == DivDigits(r, d, 4)
         IN FRound(x.s * y.s, Trim(Append(res.q, first)),
                   x.e - y.e - 4 * LimbBits, res.r # <<>>)

\* int(x): the integer part of x, towards zero
FTrunc(x) ==
    IF x.m = <<>> THEN 0
    ELSE IF x.e >= 0 THEN x.s * NatToInt(NatShl(x.m, x.e))
    ELSE x.s * NatToInt(NatShr(x.m, 0 - x.e))

\* the literal 100 of lines 116 and 124, as a float
Hundred == FFromInt(100)

----------------------------------------------------------------------------
(* The inputs.                                                             *)

\* closing prices in hundredths of a yuan, as the data source quotes them
PriceScale == 100
PriceList == <<640, 8101, 10658021, 814, 3622>>

\* the floats that pandas reads from these quotes
Prices == {FFromDecimal(PriceList[p], PriceScale) : p \in 1..MaxPrice}

\* closing prices that are whole numbers of yuan
WholePrices == {FFromInt(p) : p \in 1..MaxPrice}

----------------------------------------------------------------------------
(* Integers of any size, for the indicator columns: the record [s, m] is   *)
(* the integer s * m, s its sign (-1, 0, 1) and m its magnitude in limbs.  *)

ZZero == [s |-> 0, m |-> <<>>]

ZFromInt(n) ==
    IF n = 0 THEN ZZero
    ELSE IF n < 0 THEN [s |-> 0 - 1, m |-> NatFromInt(0 - n)]
    ELSE [s |-> 1, m |-> NatFromInt(n)]

ZNeg(x) == [s |-> 0 - x.s, m |-> x.m]

ZAdd(x, y) ==
    IF x.s = 0 THEN y
    ELSE IF y.s = 0 THEN x
    ELSE IF x.s = y.s THEN [s |-> x.s, m |-> NatAdd(x.m, y.m)]
    ELSE IF NatCmp(x.m, y.m) = 0 THEN ZZero
    ELSE IF NatCmp(x.m, y.m) > 0 THEN [s |-> x.s, m |-> NatSub(x.m, y.m)]
    ELSE [s |-> y.s, m |-> NatSub(y.m, x.m)]

ZSub(x, y) == ZAdd(x, ZNeg(y))

ZMul(x, y) ==
    IF x.s = 0 \/ y.s = 0 THEN ZZero
    ELSE [s |-> x.s * y.s, m |-> NatMul(x.m, y.m)]

\* -1, 0, 1 as x < y, x = y, x > y
ZCmp(x, y) == ZSub(x, y).s

RECURSIVE ZPow(_, _)
ZPow(b, k) == IF k = 0 THEN ZFromInt(1) ELSE ZMul(ZFromInt(b), ZPow(b, k - 1))

\* -1, 0, 1 as n < 0, n = 0, n > 0
Sgn(n) == IF n > 0 THEN 1 ELSE IF n < 0 THEN 0 - 1 ELSE 0

VARIABLES
    capital,          \* self.capital
    columns,          \* names of the columns present in self.data
    index,            \* self.data.index (day number of every row)
    close,            \* self.data['收盘']
    signal,           \* self.data['信号']
    cash,             \* self.data['资金']
    shares_held,      \* self.data['持仓']
    position_value,   \* self.data['持仓价值']
    total_equity,     \* self.data['总资产']
    cummax,           \* self.data['累计最大资产']
    i,                \* loop variable of backtest()
    current_position, \* local flag of backtest(): 0 flat, 1 long
    pc,               \* "idle": no call in progress, "loop": inside backtest()
    called,           \* backtest() has been called (it is run once here)
    ret,              \* outcome of the latest call, "none" while it runs
    performance,      \* dictionary returned by calculate_performance()
    drawdown,         \* self.data['回撤']
    trades,           \* trade statistics of main() in run_macd_strategy.py
    first_run,        \* portfolio columns left by the first backtest() call
    run_pc,           \* position inside run(): the stage to execute next
    run_ret,          \* what run() returned
    stages,           \* stages run() has executed, with their results
    upper,            \* self.data['上轨']
    lower,            \* self.data['下轨']
    executed,         \* per row, the branch body backtest() ran there
    strategy,         \* class of the strategy object
    dif,              \* self.data['DIF']
    dea,              \* self.data['DEA']
    window,           \* self.window of a BollingerStrategy
    num_std           \* self.num_std of a BollingerStrategy

vars == <<capital, columns, index, close, signal, cash, shares_held,
          position_value, total_equity, cummax, i, current_position, pc,
          called, ret, performance, drawdown, trades, first_run, run_pc,
          run_ret, stages, upper, lower, executed, strategy, dif, dea,
          window, num_std>>

\* attributes that only the constructor writes
params == <<capital, strategy, window, num_std>>
data == <<index, close, signal, upper, lower, dif, dea>>
pipeline == <<run_pc, run_ret, stages>>
portfolio == <<cash, shares_held, position_value, total_equity>>

\* len(self.data) and the row positions
Bars == DOMAIN close
NBars == Cardinality(Bars)
LastBar == NBars - 1

\* a column holding the same value in every row: data[col] = v
FilledZero(v) == [k \in Bars |-> FZero]
Filled(v) == [k \in Bars |-> v]

\* range(1, len(self.data)) starts at 1
LoopStart == 1

\* current_position = 0 before the loop: a local of backtest(), set anew
\* by every call whatever an earlier call left behind
InitialPosition == 0
KeepPosition(previous) == previous
StartPosition(previous) == InitialPosition

\* .iloc[k] with Python's wrap-around of negative positions
Iloc(col, k) == IF k < 0 THEN col[NBars + k] ELSE col[k]

NoPerformance == [status |-> "none"]

----------------------------------------------------------------------------
(* One bar of the loop of backtest(), lines 65-98.                         *)

\* shares_to_buy = int(available_capital / price)
SharesToBuy(available_capital, price) ==
    FTrunc(FDiv(available_capital, price))

\* if data['信号'].iloc[i] == 1 and current_position == 0
BuyGuardAnyState(sig, pos) == sig = 1
BuyGuardLongOnly(sig, pos) == sig = 1 /\ pos = 1
BuyGuard(sig, pos) == sig = 1 /\ pos = 0

\* elif data['信号'].iloc[i] == -1 and current_position == 1
SellGuard(sig, pos) == sig = -1 /\ pos = 1

\* the body of `if shares_to_buy > 0`: cost = shares_to_buy * price is
\* rounded, and so is the difference 资金 - cost
AfterBuyStayFlat(c, shares_to_buy, price) ==
    [cash |-> FSub(c, FMul(FFromInt(shares_to_buy), price)),
     shares |-> shares_to_buy, pos |-> 0, did |-> "buy"]
AfterBuy(c, shares_to_buy, price) ==
    [cash |-> FSub(c, FMul(FFromInt(shares_to_buy), price)),
     shares |-> shares_to_buy, pos |-> 1, did |-> "buy"]

\* the body of `if shares_to_sell > 0`: revenue = shares_to_sell * price
AfterSellKeepShares(c, shares_to_sell, price) ==
    [cash |-> FAdd(c, FMul(FFromInt(shares_to_sell), price)),
     shares |-> shares_to_sell, pos |-> 0, did |-> "sell"]
AfterSellHalf(c, shares_to_sell, price) ==
    [cash |-> FAdd(c, FMul(FFromInt(shares_to_sell - shares_to_sell \div 2),
                           price)),
     shares |-> shares_to_sell \div 2,
     pos |-> IF shares_to_sell \div 2 = 0 THEN 0 ELSE 1, did |-> "sell"]
AfterSellStayLong(c, shares_to_sell, price) ==
    [cash |-> FAdd(c, FMul(FFromInt(shares_to_sell), price)),
     shares |-> 0, pos |-> 1, did |-> "sell"]
AfterSell(c, shares_to_sell, price) ==
    [cash |-> FAdd(c, FMul(FFromInt(shares_to_sell), price)),
     shares |-> 0, pos |-> 0, did |-> "sell"]

\* data['持仓价值'].iloc[i] = data['持仓'].iloc[i] * price
PositionValue(shares, price) == FMul(FFromInt(shares), price)

\* data['总资产'].iloc[i] = data['资金'].iloc[i] + data['持仓价值'].iloc[i]
TotalEquityCashOnly(c, pv) == c
TotalEquity(c, pv) == FAdd(c, pv)

\* Rows i of 资金/持仓 start as a copy of row i-1 (lines 67-68), then the
\* branch on the signal is applied.
CarryForward(prev_cash, prev_shares, pos) ==
    [cash |-> prev_cash, shares |-> prev_shares, pos |-> pos, did |-> "none"]

\* lines 75-83: the buy branch; nothing happens when shares_to_buy is 0
BuyBranchAlwaysLong(prev_cash, prev_shares, pos, price) ==
    LET shares_to_buy == SharesToBuy(prev_cash, price)
    IN IF shares_to_buy > 0
       THEN AfterBuy(prev_cash, shares_to_buy, price)
       ELSE CarryForward(prev_cash, prev_shares, 1)
BuyBranch(prev_cash, prev_shares, pos, price) ==
    LET shares_to_buy == SharesToBuy(prev_cash, price)
    IN IF shares_to_buy > 0
       THEN AfterBuy(prev_cash, shares_to_buy, price)
       ELSE CarryForward(prev_cash, prev_shares, pos)

\* lines 87-94: the sell branch; shares_to_sell is the carried-forward 持仓
SellBranch(prev_cash, prev_shares, pos, price) ==
    IF prev_shares > 0
    THEN AfterSell(prev_cash, prev_shares, price)
    ELSE CarryForward(prev_cash, prev_shares, pos)

TradeStep(prev_cash, prev_shares, pos, sig, price) ==
    IF BuyGuard(sig, pos)
    THEN BuyBranch(prev_cash, prev_shares, pos, price)
    ELSE IF SellGuard(sig, pos)
         THEN SellBranch(prev_cash, prev_shares, pos, price)
         ELSE CarryForward(prev_cash, prev_shares, pos)

----------------------------------------------------------------------------
(* calculate_performance(), lines 104-143.                                 *)

\* days = (data.index[-1] - data.index[0]).days
Days == Iloc(index, -1) - Iloc(index, 0)

\* data['总资产'].cummax()
RECURSIVE MaxUpTo(_, _)
MaxUpTo(col, k) ==
    IF k = 0 THEN col[0]
    ELSE LET before == MaxUpTo(col, k - 1)
         IN IF FLess(before, col[k]) THEN col[k] ELSE before
CumMaxWholeSeries(col) == [k \in Bars |-> MaxUpTo(col, LastBar)]
CumMax(col) == [k \in Bars |-> MaxUpTo(col, k)]

\* (data['总资产'] - data['累计最大资产']) / data['累计最大资产'] * 100,
\* row by row
Drawdown(equity, peak) ==
    [k \in Bars |-> FMul(FDiv(FSub(equity[k], peak[k]), peak[k]), Hundred)]

\* data['回撤'].min()
RECURSIVE MinUpTo(_, _)
MinUpTo(col, k) ==
    IF k = 0 THEN col[0]
    ELSE LET before == MinUpTo(col, k - 1)
         IN IF FLess(col[k], before) THEN col[k] ELSE before
MaxDrawdown(dd) == MinUpTo(dd, LastBar)

\* len(data[data['信号'] != 0])
TradeCountExecuted ==
    Cardinality({k \in Bars \ {0} : shares_held[k] # shares_held[k - 1]})
TradeCount == Cardinality({k \in Bars : signal[k] # 0})

\* data['总资产'].iloc[-1] raises IndexError on a frame without rows
HasLastRow == NBars > 0

\* 365 / days raises ZeroDivisionError when days == 0
AnnualReturnDefined(days) == days # 0

\* The dictionary of lines 136-143.  annual_return is kept as the power it
\* is computed from, (final / initial) ** (365 / days); max_drawdown is read
\* from the 回撤 column that line 124 has just written.
PerformanceDict ==
    LET final_capital == Iloc(total_equity, -1)
        initial_capital == FFromInt(capital)
    IN [status |-> "dict",
        initial_capital |-> capital,
        final_capital |-> final_capital,
        total_return |->
            FMul(FDiv(FSub(final_capital, initial_capital), initial_capital),
                 Hundred),
        annual_return |-> [base |-> FDiv(final_capital, initial_capital),
                           exp_num |-> 365, exp_den |-> Days],
        max_drawdown |-> MaxDrawdown(drawdown'),
        trade_count |-> TradeCount]

\* Effect of calculate_performance() on a frame that has the 总资产 column:
\* it raises at line 114 or at line 119 before anything is written, or adds
\* the running maximum and drawdown columns and returns the dictionary.
PerformanceEffect(outcome) ==
    IF ~HasLastRow
    THEN /\ ret' = "IndexError"
         /\ UNCHANGED <<cummax, drawdown, columns, performance>>
    ELSE IF AnnualReturnDefined(Days)
    THEN /\ cummax' = CumMax(total_equity)
         /\ drawdown' = Drawdown(total_equity, cummax')
         /\ columns' = columns \cup {"cummax", "drawdown"}
         /\ performance' = PerformanceDict
         /\ ret' = outcome
    ELSE /\ ret' = "ZeroDivisionError"
         /\ UNCHANGED <<cummax, drawdown, columns, performance>>

----------------------------------------------------------------------------
(* Trade statistics of main(), src/run_macd_strategy.py lines 70-109.      *)

\* signals = data[data['信号'] != 0]; sorted_signals = signals.sort_index():
\* the row positions with a non-zero signal, in chronological order
RECURSIVE RowsUpTo(_)
RowsUpTo(k) ==
    IF k < 0 THEN <<>>
    ELSE IF signal[k] # 0 THEN Append(RowsUpTo(k - 1), k) ELSE RowsUpTo(k - 1)
SortedSignals == RowsUpTo(LastBar)

\* profit = (sell_price - buy_price) / buy_price * 100
TradeRecord(b, s) ==
    [buy_date |-> index[b], buy_price |-> close[b],
     sell_date |-> index[s], sell_price |-> close[s],
     profit_pct |-> FMul(FDiv(FSub(close[s], close[b]), close[b]), Hundred)]

\* if sell_price > buy_price
IsWin(buy_price, sell_price) == FLess(buy_price, sell_price)

\* sorted_signals.iloc[i]['信号'] == 1 and sorted_signals.iloc[i+1]['信号'] == -1
IsPair(rows, j) == signal[rows[j + 1]] = 1 /\ signal[rows[j + 2]] = -1

\* the while loop of lines 83-106; j is the 0-based loop variable i and
\* rows[j + 1] is sorted_signals.iloc[j]
RECURSIVE PairScan(_, _, _)
PairScan(rows, j, acc) ==
    IF ~(j < Len(rows) - 1) THEN acc
    ELSE IF IsPair(rows, j)
         THEN PairScan(rows, j + 2,
                  [records |-> Append(acc.records,
                                      TradeRecord(rows[j + 1], rows[j + 2])),
                   profitable |-> acc.profitable +
                       (IF IsWin(close[rows[j + 1]], close[rows[j + 2]])
                        THEN 1 ELSE 0)])
         ELSE PairScan(rows, j + 1, acc)

\* max(1, len(trade_records))
AtLeastOne(n) == IF n > 1 THEN n ELSE 1

\* win_rate = profitable_trades / max(1, len(trade_records)) * 100: the
\* quotient of the two integers is a float
WinLossRatio(profitable, total) ==
    FMul(FDiv(FFromInt(profitable), FFromInt(AtLeastOne(total - profitable))),
         Hundred)
WinRate(profitable, total) ==
    FMul(FDiv(FFromInt(profitable), FFromInt(AtLeastOne(total))), Hundred)

NoTrades == [status |-> "none"]

TradeStatistics ==
    LET scan == PairScan(SortedSignals, 0, [records |-> <<>>, profitable |-> 0])
    IN [status |-> "paired",
        buy_count |-> Cardinality({k \in Bars : signal[k] = 1}),
        sell_count |-> Cardinality({k \in Bars : signal[k] = -1}),
        trade_records |-> scan.records,
        profitable_trades |-> scan.profitable,
        win_rate |-> WinRate(scan.profitable, Len(scan.records))]

----------------------------------------------------------------------------
(* BollingerStrategy, bollinger_strategy.py: calculate_indicators() lines   *)
(* 36-56 and generate_signals() lines 58-83.  The closes of the frames of   *)
(* the indicator stages are whole numbers of yuan.  Their rolling sums are  *)
(* exact in floating point, a window of equal closes has deviation 0, and   *)
(* the comparisons of a close with a band come out as they do for the exact *)
(* values MA -/+ num_std * STD, so a band is held as the numbers it is      *)
(* computed from.  A row whose band is NaN is a row outside the DOMAIN of   *)
(* upper and lower.                                                         *)

\* BollingerStrategy(data, window=20, num_std=2)
DefaultWindow == 20
DefaultNumStd == 2
Windows == (1..MaxWindow) \cup {DefaultWindow}
NumStds == 0..DefaultNumStd

\* the close of row k as an integer
Whole(k) == FTrunc(close[k])

\* sum over the window of w rows that ends at row k
RECURSIVE RollingSum(_, _)
RollingSum(k, w) ==
    IF w = 0 THEN 0 ELSE Whole(k) + RollingSum(k - 1, w - 1)

\* sum of the squares over the same window
RECURSIVE RollingSquares(_, _)
RollingSquares(k, w) ==
    IF w = 0 THEN 0 ELSE Whole(k) * Whole(k) + RollingSquares(k - 1, w - 1)

\* rolling(window=w): rows before the first full window are NaN, and the
\* sample deviation needs two closes
HasBand(k, w) == w >= 2 /\ k >= w - 1

\* lines 43-50 at row k: MA = sum / n and STD * STD = dev / (n * (n - 1)),
\* where dev = n * squares - sum * sum; the band is MA + k * STD
Band(row, w, times) ==
    [sum |-> RollingSum(row, w),
     dev |-> w * RollingSquares(row, w)
                - RollingSum(row, w) * RollingSum(row, w),
     n |-> w,
     k |-> times]

\* -1, 0, 1 as the close c lies below, on, above the band b: with
\* x = c * n - sum, the sign of x / n - k * sqrt(dev / (n * (n - 1)))
BandCmp(c, b) ==
    LET x == c * b.n - b.sum
        offset == IF b.dev = 0 THEN 0 ELSE Sgn(b.k)
    IN IF Sgn(x) # offset THEN Sgn(Sgn(x) - offset)
       ELSE IF Sgn(x) = 0 THEN 0
       ELSE Sgn(x) * Sgn(x * x * (b.n - 1) - b.k * b.k * b.dev * b.n)

\* 收盘 <= band and 收盘 > band
AtOrBelow(c, b) == BandCmp(FTrunc(c), b) <= 0
Above(c, b) == BandCmp(FTrunc(c), b) > 0

\* 上轨 - 下轨 is 0: no deviation, or num_std = 0
BandsMeet(b) == b.dev = 0 \/ b.k = 0

\* line 53: %B = (close - lower) / (upper - lower) is NaN where a band is
\* NaN and where the float division is 0 / 0
PercentBIsNaN(k) ==
    \/ k \notin DOMAIN upper
    \/ k \notin DOMAIN lower
    \/ BandsMeet(upper[k]) /\ BandCmp(Whole(k), lower[k]) = 0

\* line 69, dropna(): the rows that have a value in every column
DropNa == {k \in DOMAIN close : ~PercentBIsNaN(k)}

\* the row of rows that a selection leaves at position p
Position(rows, p) ==
    CHOOSE k \in rows : Cardinality({j \in rows : j < k}) = p

\* the column of the frame that keeps the given rows
Select(column, rows) ==
    [p \in 0..(Cardinality(rows) - 1) |-> column[Position(rows, p)]]

Reindex(column) == Select(column, DropNa)

\* lines 65 and 71-80 at position k of the frame without NaN rows
BollingerSignalSellFirst(c, lo, up, k) ==
    IF k < LoopStart THEN 0
    ELSE IF AtOrBelow(c[k - 1], up[k - 1]) /\ Above(c[k], up[k]) THEN 0 - 1
    ELSE IF AtOrBelow(c[k - 1], lo[k - 1]) /\ Above(c[k], lo[k]) THEN 1
    ELSE 0

BollingerSignalFirstBar(c, lo, up, k) ==
    IF k < LoopStart THEN (IF Above(c[k], lo[k]) THEN 1 ELSE 0)
    ELSE IF AtOrBelow(c[k - 1], lo[k - 1]) /\ Above(c[k], lo[k]) THEN 1
    ELSE IF AtOrBelow(c[k - 1], up[k - 1]) /\ Above(c[k], up[k]) THEN 0 - 1
    ELSE 0

BollingerSignal(c, lo, up, k) ==
    IF k < LoopStart THEN 0
    ELSE IF AtOrBelow(c[k - 1], lo[k - 1]) /\ Above(c[k], lo[k]) THEN 1
    ELSE IF AtOrBelow(c[k - 1], up[k - 1]) /\ Above(c[k], up[k]) THEN 0 - 1
    ELSE 0

\* calculate_indicators(), line 38: `self.data is None or self.data.empty`
NoRows == columns = {} \/ NBars = 0

\* calculate_indicators(), lines 43-56
BollingerIndicators ==
    /\ upper' = [k \in {r \in Bars : HasBand(r, window)} |->
                    Band(k, window, num_std)]
    /\ lower' = [k \in {r \in Bars : HasBand(r, window)} |->
                    Band(k, window, 0 - num_std)]
    /\ columns' = columns \cup {"MA", "STD", "upper", "lower", "%B"}

\* generate_signals(), lines 65-83
BollingerSignals ==
    /\ index' = Reindex(index)
    /\ close' = Reindex(close)
    /\ upper' = Reindex(upper)
    /\ lower' = Reindex(lower)
    /\ signal' = [k \in DOMAIN close' |->
                     BollingerSignal(close', lower', upper', k)]
    /\ columns' = columns \cup {"signal"}

----------------------------------------------------------------------------
(* MACDStrategy, macd_strategy.py: calculate_indicators() lines 37-57 and   *)
(* generate_signals() lines 59-81.  ewm(span, adjust=False).mean() is       *)
(* y[0] = x[0] and y[k] = ((span - 1) * y[k-1] + 2 * x[k]) / (span + 1).    *)
(* For whole closes the comparisons of DIF with DEA come out as for the     *)
(* exact values, so row k of an average is held as the integer              *)
(* y[k] * denominator^k.                                                    *)

\* MACDStrategy(data, fast_period=12, slow_period=26, signal_period=9)
FastPeriod == 12
SlowPeriod == 26
SignalPeriod == 9

\* row k of the average of x, where x[j] is held times scale^j: the result
\* is held times (scale * (span + 1))^k
RECURSIVE Ewm(_, _, _, _)
Ewm(x, scale, span, k) ==
    IF k = 0 THEN x[0]
    ELSE ZAdd(ZMul(ZFromInt((span - 1) * scale), Ewm(x, scale, span, k - 1)),
              ZMul(ZMul(ZFromInt(2), ZPow(span + 1, k - 1)), x[k]))

\* the closes as integers
WholeCloses == [k \in Bars |-> ZFromInt(Whole(k))]

\* DIF = EMA_fast - EMA_slow at row k, times ((fast + 1) * (slow + 1))^k
DifScaled ==
    [k \in Bars |->
        ZSub(ZMul(ZPow(SlowPeriod + 1, k), Ewm(WholeCloses, 1, FastPeriod, k)),
             ZMul(ZPow(FastPeriod + 1, k), Ewm(WholeCloses, 1, SlowPeriod, k)))]

\* the columns DIF and DEA, row k of both times the same positive number
\* ((fast + 1) * (slow + 1) * (signal + 1))^k
MacdDif == [k \in Bars |-> ZMul(ZPow(SignalPeriod + 1, k), DifScaled[k])]
MacdDea ==
    [k \in Bars |->
        Ewm(DifScaled, (FastPeriod + 1) * (SlowPeriod + 1), SignalPeriod, k)]

\* lines 66 and 69-78 at row k
MacdSignal(d, e, k) ==
    IF k < LoopStart THEN 0
    ELSE IF ZCmp(d[k - 1], e[k - 1]) < 0 /\ ZCmp(d[k], e[k]) > 0 THEN 1
    ELSE IF ZCmp(d[k - 1], e[k - 1]) > 0 /\ ZCmp(d[k], e[k]) < 0 THEN 0 - 1
    ELSE 0

\* calculate_indicators(), lines 43-57
MacdIndicators ==
    /\ dif' = MacdDif
    /\ dea' = MacdDea
    /\ columns' = columns \cup {"EMA_fast", "EMA_slow", "DIF", "DEA", "MACD"}

\* generate_signals(), lines 66-81
MacdSignals ==
    /\ signal' = [k \in Bars |-> MacdSignal(dif, dea, k)]
    /\ columns' = columns \cup {"signal"}

----------------------------------------------------------------------------
(* run(), lines 154-180.  calculate_indicators, generate_signals and       *)
(* plot_results are abstract in BaseStrategy: of an implementation that is *)
(* not one of the repository's, run() sees the truth of what it returns    *)
(* and the frame it leaves.                                                *)

\* `if not self.stage(): return False`: run() goes on after a true result
ProceedAlways(result) == TRUE
Proceed(result) == result = "True"

\* bookkeeping of run() once a stage has ended with the given result:
\* "True" or "False" for what it returned, "raised" for an exception
StageDone(stage, result, next) ==
    /\ stages' = Append(stages, [stage |-> stage, result |-> result])
    /\ IF result = "raised"
       THEN run_pc' = "raised" /\ run_ret' = run_ret
       ELSE IF Proceed(result)
            THEN IF next = "returned"
                 THEN run_pc' = "returned" /\ run_ret' = "True"
                 ELSE run_pc' = next /\ run_ret' = run_ret
            ELSE run_pc' = "returned" /\ run_ret' = "False"

\* what an abstract stage may return
StageResults == {"True", "False"}

----------------------------------------------------------------------------
\* a strategy object on which no method has been called: the frame has no
\* column but those it was loaded with
Constructed ==
    /\ cash = <<>>
    /\ shares_held = <<>>
    /\ position_value = <<>>
    /\ total_equity = <<>>
    /\ cummax = <<>>
    /\ drawdown = <<>>
    /\ upper = <<>>
    /\ lower = <<>>
    /\ dif = <<>>
    /\ dea = <<>>
    /\ executed = <<>>
    /\ i = 0
    /\ current_position = 0
    /\ pc = "idle"
    /\ called = FALSE
    /\ ret = "none"
    /\ performance = NoPerformance
    /\ trades = NoTrades
    /\ first_run = <<>>
    /\ run_pc = "none"
    /\ run_ret = "none"
    /\ stages = <<>>

\* a strategy object holding a frame of prices and signals, or of prices
\* only, on which backtest() is called directly
Init ==
    /\ \E n \in 1..MaxBars :
         /\ close \in [0..(n - 1) -> Prices]
         /\ \/ /\ signal \in [0..(n - 1) -> Signals]
               /\ columns = {"close", "signal"}
            \/ /\ signal = [k \in 0..(n - 1) |-> 0]
               /\ columns = {"close"}
         /\ index = [k \in 0..(n - 1) |-> k]
    /\ capital = InitialCapital
    /\ strategy = "macd"
    /\ window = DefaultWindow
    /\ num_std = DefaultNumStd
    /\ Constructed

\* backtest(), lines 52-54: no signal column; inside run() the False ends
\* run() (lines 174-175)
BacktestNoSignal ==
    /\ pc = "idle"
    /\ ~called
    /\ run_pc \in {"none", "backtest"}
    /\ "signal" \notin columns
    /\ columns # {}
    /\ ret' = "False"
    /\ called' = TRUE
    /\ IF run_pc = "backtest"
       THEN StageDone("backtest", "False", "plot")
       ELSE UNCHANGED pipeline
    /\ UNCHANGED <<params, executed, columns, data, portfolio, cummax, i,
                   current_position, pc, performance, drawdown, trades,
                   first_run>>

\* backtest(), lines 56-63: the four columns are created, or overwritten,
\* and filled; the loop is entered
BacktestColumns ==
    /\ cash' = Filled(FFromInt(capital))
    /\ shares_held' = [k \in Bars |-> 0]
    /\ position_value' = Filled(FZero)
    /\ total_equity' = Filled(FFromInt(capital))
    /\ columns' = columns \cup {"cash", "shares_held", "position_value",
                                "total_equity"}
    /\ current_position' = StartPosition(current_position)
    /\ i' = LoopStart
    /\ pc' = "loop"
    /\ ret' = "none"
    /\ executed' = [k \in Bars |-> "none"]

\* backtest(), lines 56-63, first call on the object (directly or by run())
BacktestBegin ==
    /\ pc = "idle"
    /\ ~called
    /\ run_pc \in {"none", "backtest"}
    /\ "signal" \in columns
    /\ BacktestColumns
    /\ called' = TRUE
    /\ UNCHANGED <<params, data, cummax, performance, drawdown, trades,
                   first_run, pipeline>>

\* backtest(), lines 56-63, called a second time on the same object and
\* the same columns; first_run keeps what the first call left
BacktestAgain ==
    /\ pc = "idle"
    /\ called
    /\ run_pc = "none"
    /\ "total_equity" \in columns
    /\ first_run = <<>>
    /\ BacktestColumns
    /\ first_run' = portfolio
    /\ UNCHANGED <<params, data, cummax, performance, drawdown, trades,
                   called, pipeline>>

\* backtest(), lines 65-98: one iteration of the loop
BacktestBar ==
    /\ pc = "loop"
    /\ i < NBars
    /\ LET price == Iloc(close, i)
           step == TradeStep(Iloc(cash, i - 1), Iloc(shares_held, i - 1),
                             current_position, Iloc(signal, i), price)
           pv == PositionValue(step.shares, price)
       IN /\ cash' = [cash EXCEPT ![i] = step.cash]
          /\ shares_held' = [shares_held EXCEPT ![i] = step.shares]
          /\ current_position' = step.pos
          /\ executed' = [executed EXCEPT ![i] = step.did]
          /\ position_value' = [position_value EXCEPT ![i] = pv]
          /\ total_equity' = [total_equity EXCEPT ![i] = TotalEquity(step.cash, pv)]
    /\ i' = i + 1
    /\ UNCHANGED <<params, columns, data, cummax, pc, called, ret, performance,
                   drawdown, trades, first_run, pipeline>>

\* backtest(), lines 100-102: the loop is over, calculate_performance() is
\* called and its exception, if any, leaves backtest() and run()
BacktestFinish ==
    /\ pc = "loop"
    /\ i >= NBars
    /\ PerformanceEffect("True")
    /\ pc' = "idle"
    /\ IF run_pc = "backtest"
       THEN StageDone("backtest",
                      IF ret' = "True" THEN "True" ELSE "raised", "plot")
       ELSE UNCHANGED pipeline
    /\ UNCHANGED <<params, executed, data, portfolio, i, current_position, called,
                   trades, first_run>>

\* calculate_performance() called by the user of the strategy object
CalculatePerformance ==
    /\ pc = "idle"
    /\ IF "total_equity" \notin columns
       THEN /\ ret' = "False"
            /\ UNCHANGED <<cummax, drawdown, columns, performance>>
       ELSE PerformanceEffect("dict")
    /\ UNCHANGED <<params, executed, data, portfolio, i, current_position, pc, called,
                   trades, first_run, pipeline>>

\* main() of run_macd_strategy.py, lines 70-109: once calculate_performance()
\* has returned its dictionary (line 52) the signals are paired into trades
PairTrades ==
    /\ pc = "idle"
    /\ ret = "dict"
    /\ trades' = TradeStatistics
    /\ UNCHANGED <<params, executed, columns, data, portfolio, cummax, drawdown, i,
                   current_position, pc, called, ret, performance, first_run,
                   pipeline>>

Next ==
    \/ BacktestNoSignal
    \/ BacktestBegin
    \/ BacktestBar
    \/ BacktestFinish
    \/ CalculatePerformance
    \/ PairTrades

Spec == Init /\ [][Next]_vars

\* backtest() called twice in a row on one strategy object
NextRerun ==
    \/ BacktestNoSignal
    \/ BacktestBegin
    \/ BacktestBar
    \/ BacktestFinish
    \/ BacktestAgain

SpecRerun == Init /\ [][NextRerun]_vars

----------------------------------------------------------------------------
(* The strategy object of the scripts: run() and set_data().               *)

\* the frames handed to a strategy: prices without any other column; a
\* frame may have no row
IsPriceFrame(c, idx) ==
    \E n \in 0..MaxRunBars :
        /\ c \in [0..(n - 1) -> WholePrices]
        /\ idx = [k \in 0..(n - 1) |-> k]

\* the strategy classes, with the constructor arguments of BollingerStrategy
IsStrategy(class, w, times) ==
    \/ class \in {"abstract", "macd"} /\ w = DefaultWindow /\ times = DefaultNumStd
    \/ class = "bollinger" /\ w \in Windows /\ times \in NumStds

\* a strategy constructed on a frame of prices, or without data
\* (self.data is None: no column, no row)
InitRun ==
    /\ \/ /\ IsPriceFrame(close, index)
          /\ columns = {"close"}
       \/ /\ close = <<>>
          /\ index = <<>>
          /\ columns = {}
    /\ signal = [k \in DOMAIN close |-> 0]
    /\ capital = InitialCapital
    /\ IsStrategy(strategy, window, num_std)
    /\ Constructed

\* self.data = data (line 30) for a frame of prices
InstallFrame ==
    /\ IsPriceFrame(close', index')
    /\ columns' = {"close"}
    /\ signal' = [k \in DOMAIN close' |-> 0]
    /\ UNCHANGED <<upper, lower, dif, dea, portfolio, cummax, drawdown>>

\* set_data(data), lines 28-30, on an object that has run nothing yet: data
\* is a frame or None
SetData ==
    /\ run_pc = "none"
    /\ pc = "idle"
    /\ ~called
    /\ \/ InstallFrame
       \/ /\ close' = <<>>
          /\ index' = <<>>
          /\ signal' = <<>>
          /\ columns' = {}
          /\ UNCHANGED <<upper, lower, dif, dea, portfolio, cummax, drawdown>>
    /\ UNCHANGED <<params, executed, i, current_position, pc, called, ret,
                   performance, trades, first_run, pipeline>>

\* run(), lines 161-166: a data argument that is not None is installed,
\* whatever the object holds; without any frame run() returns False at once
RunBegin ==
    /\ run_pc = "none"
    /\ pc = "idle"
    /\ ~called
    /\ \/ /\ InstallFrame
          /\ run_pc' = "indicators"
          /\ run_ret' = run_ret
       \/ /\ columns # {}
          /\ run_pc' = "indicators"
          /\ UNCHANGED <<columns, data, portfolio, cummax, drawdown, run_ret>>
       \/ /\ columns = {}
          /\ run_pc' = "returned"
          /\ run_ret' = "False"
          /\ UNCHANGED <<columns, data, portfolio, cummax, drawdown>>
    /\ UNCHANGED <<params, executed, i, current_position, pc, called, ret,
                   performance, trades, first_run, stages>>

\* run(), lines 168-169
RunIndicators ==
    /\ run_pc = "indicators"
    /\ \/ /\ strategy = "abstract"
          /\ \E result \in StageResults :
                /\ StageDone("calculate_indicators", result, "signals")
                /\ columns' = IF result = "True"
                              THEN columns \cup {"indicators"} ELSE columns
          /\ UNCHANGED <<upper, lower, dif, dea>>
       \/ /\ strategy \in {"bollinger", "macd"}
          /\ NoRows
          /\ StageDone("calculate_indicators", "False", "signals")
          /\ UNCHANGED <<columns, upper, lower, dif, dea>>
       \/ /\ strategy = "bollinger"
          /\ ~NoRows
          /\ BollingerIndicators
          /\ StageDone("calculate_indicators", "True", "signals")
          /\ UNCHANGED <<dif, dea>>
       \/ /\ strategy = "macd"
          /\ ~NoRows
          /\ MacdIndicators
          /\ StageDone("calculate_indicators", "True", "signals")
          /\ UNCHANGED <<upper, lower>>
    /\ UNCHANGED <<params, executed, index, close, signal, portfolio, cummax,
                   i, current_position, pc, called, ret, performance,
                   drawdown, trades, first_run>>

\* run(), lines 171-172.  An implementation of the abstract method may
\* write the signal column or not, and may drop the leading rows that its
\* indicators leave without a value.
RunSignals ==
    /\ run_pc = "signals"
    /\ \/ /\ strategy = "abstract"
          /\ StageDone("generate_signals", "False", "backtest")
          /\ UNCHANGED <<index, close, signal, columns, upper, lower>>
       \/ /\ strategy = "abstract"
          /\ StageDone("generate_signals", "True", "backtest")
          /\ \E dropped \in 0..NBars :
                /\ index' = Select(index, dropped..LastBar)
                /\ close' = Select(close, dropped..LastBar)
          /\ \/ /\ signal' \in [DOMAIN close' -> Signals]
                /\ columns' = columns \cup {"signal"}
             \/ /\ signal' = [k \in DOMAIN close' |-> 0]
                /\ columns' = columns
          /\ UNCHANGED <<upper, lower>>
       \/ /\ strategy = "bollinger"
          /\ BollingerSignals
          /\ StageDone("generate_signals", "True", "backtest")
       \/ /\ strategy = "macd"
          /\ MacdSignals
          /\ StageDone("generate_signals", "True", "backtest")
          /\ UNCHANGED <<index, close, upper, lower>>
    /\ UNCHANGED <<params, executed, dif, dea, portfolio, cummax, i,
                   current_position, pc, called, ret, performance, drawdown,
                   trades, first_run>>

\* run(), lines 177-180: the plot_results() of the repository's strategies
\* returns True once the 总资产 column exists
RunPlot ==
    /\ run_pc = "plot"
    /\ \/ /\ strategy = "abstract"
          /\ \E result \in StageResults :
                StageDone("plot_results", result, "returned")
       \/ /\ strategy \in {"bollinger", "macd"}
          /\ StageDone("plot_results", "True", "returned")
    /\ UNCHANGED <<params, executed, columns, data, portfolio, cummax, i,
                   current_position, pc, called, ret, performance, drawdown,
                   trades, first_run>>

\* run() on a strategy object; lines 174-175 are the backtest actions
NextRun ==
    \/ SetData
    \/ RunBegin
    \/ RunIndicators
    \/ RunSignals
    \/ BacktestNoSignal
    \/ BacktestBegin
    \/ BacktestBar
    \/ BacktestFinish
    \/ RunPlot

SpecRun == InitRun /\ [][NextRun]_vars

----------------------------------------------------------------------------
(* The signal generators called on their own.                              *)

\* a Bollinger strategy constructed on a frame of prices
InitSignals ==
    /\ \E n \in 0..MaxSignalBars :
          /\ close \in [0..(n - 1) -> WholePrices]
          /\ index = [k \in 0..(n - 1) |-> k]
          /\ signal = [k \in 0..(n - 1) |-> 0]
    /\ columns = {"close"}
    /\ strategy = "bollinger"
    /\ window \in Windows
    /\ num_std \in NumStds
    /\ capital = InitialCapital
    /\ Constructed

\* BollingerStrategy.calculate_indicators(), lines 36-56
CalculateIndicators ==
    /\ strategy = "bollinger"
    /\ stages = <<>>
    /\ ret = "none"
    /\ IF NoRows
       THEN /\ ret' = "False"
            /\ UNCHANGED <<upper, lower, columns>>
       ELSE /\ BollingerIndicators
            /\ ret' = "True"
    /\ UNCHANGED <<params, executed, index, close, signal, dif, dea,
                   portfolio, cummax, i, current_position, pc, called,
                   performance, drawdown, trades, first_run, pipeline>>

\* BollingerStrategy.generate_signals(), lines 60-62
GenerateSignalsNoBands ==
    /\ strategy = "bollinger"
    /\ stages = <<>>
    /\ ~({"MA", "upper"} \subseteq columns)
    /\ stages' = <<[stage |-> "generate_signals", result |-> "False"]>>
    /\ UNCHANGED <<params, executed, columns, data, portfolio, cummax, i,
                   current_position, pc, called, ret, performance, drawdown,
                   trades, first_run, run_pc, run_ret>>

\* BollingerStrategy.generate_signals(), lines 65-83
GenerateSignals ==
    /\ strategy = "bollinger"
    /\ stages = <<>>
    /\ {"MA", "upper"} \subseteq columns
    /\ BollingerSignals
    /\ stages' = <<[stage |-> "generate_signals", result |-> "True"]>>
    /\ UNCHANGED <<params, executed, dif, dea, portfolio, cummax,
                   i, current_position, pc, called, ret, performance,
                   drawdown, trades, first_run, run_pc, run_ret>>

NextSignals ==
    \/ CalculateIndicators
    \/ GenerateSignalsNoBands
    \/ GenerateSignals

SpecSignals == InitSignals /\ [][NextSignals]_vars

\* MACDStrategy.calculate_indicators(), lines 37-57
MacdCalculateIndicators ==
    /\ strategy = "macd"
    /\ stages = <<>>
    /\ ret = "none"
    /\ IF NoRows
       THEN /\ ret' = "False"
            /\ UNCHANGED <<dif, dea, columns>>
       ELSE /\ MacdIndicators
            /\ ret' = "True"
    /\ UNCHANGED <<params, executed, index, close, signal, upper, lower,
                   portfolio, cummax, i, current_position, pc, called,
                   performance, drawdown, trades, first_run, pipeline>>

\* MACDStrategy.generate_signals(), lines 61-63
MacdGenerateSignalsNoIndicators ==
    /\ strategy = "macd"
    /\ stages = <<>>
    /\ ~({"DIF", "DEA"} \subseteq columns)
    /\ stages' = <<[stage |-> "generate_signals", result |-> "False"]>>
    /\ UNCHANGED <<params, executed, columns, data, portfolio,
                   cummax, i, current_position, pc, called, ret, performance,
                   drawdown, trades, first_run, run_pc, run_ret>>

\* MACDStrategy.generate_signals(), lines 66-81
MacdGenerateSignals ==
    /\ strategy = "macd"
    /\ stages = <<>>
    /\ {"DIF", "DEA"} \subseteq columns
    /\ MacdSignals
    /\ stages' = <<[stage |-> "generate_signals", result |-> "True"]>>
    /\ UNCHANGED <<params, executed, index, close, upper, lower,
                   dif, dea, portfolio, cummax, i, current_position, pc,
                   called, ret, performance, drawdown, trades, first_run,
                   run_pc, run_ret>>

\* a Bollinger or a MACD strategy constructed on a frame of prices
InitGenerators ==
    /\ \E n \in 0..MaxSignalBars :
          /\ close \in [0..(n - 1) -> WholePrices]
          /\ index = [k \in 0..(n - 1) |-> k]
          /\ signal = [k \in 0..(n - 1) |-> 0]
    /\ columns = {"close"}
    /\ \/ strategy = "bollinger" /\ window \in Windows /\ num_std \in NumStds
       \/ strategy = "macd" /\ window = DefaultWindow /\ num_std = DefaultNumStd
    /\ capital = InitialCapital
    /\ Constructed

\* the two signal generators of the repository
NextGenerators ==
    \/ CalculateIndicators
    \/ GenerateSignalsNoBands
    \/ GenerateSignals
    \/ MacdCalculateIndicators
    \/ MacdGenerateSignalsNoIndicators
    \/ MacdGenerateSignals

SpecGenerators == InitGenerators /\ [][NextGenerators]_vars

----------------------------------------------------------------------------
\* a value of a float column
IsFloat(x) == DOMAIN x = {"s", "m", "e"}

TypeOK ==
    /\ capital = InitialCapital
    /\ NBars <= MaxBars \/ NBars <= MaxSignalBars \/ NBars <= MaxRunBars
    /\ Bars = 0..LastBar /\ DOMAIN signal = Bars /\ DOMAIN index = Bars
    /\ \A k \in Bars : /\ close[k] \in Prices \cup WholePrices
                        /\ signal[k] \in Signals
    /\ "total_equity" \in columns =>
          \A k \in Bars : /\ IsFloat(cash[k])
                          /\ IsFloat(position_value[k])
                          /\ IsFloat(total_equity[k])
                          /\ shares_held[k] \in Nat
    /\ pc \in {"idle", "loop"}
    /\ i \in 0..NBars \/ i = LoopStart
    /\ current_position \in {0, 1}
    /\ ret \in {"none", "True", "False", "dict", "ZeroDivisionError",
               "IndexError"}

----------------------------------------------------------------------------
(* Vocabulary of the properties.  Equalities and orderings between amounts *)
(* of money are those of the program's floats; an arithmetic expression of *)
(* a claim is evaluated as the program evaluates it.                       *)

\* backtest() has created the portfolio columns
Started == "total_equity" \in columns

\* backtest() has left its loop
LoopDone == Started /\ pc = "idle"

\* rows the loop has already written (row 0 is written by the column fill)
Processed(k) == Started /\ k \in Bars /\ k < i

\* the loop is about to execute the iteration for row i
AtBar == pc = "loop" /\ i < NBars

\* row k records an executed buy / an executed sell
BoughtAt(k) == Processed(k) /\ k >= 1 /\ shares_held[k - 1] = 0 /\ shares_held[k] > 0
SoldAt(k) == Processed(k) /\ k >= 1 /\ shares_held[k - 1] > 0 /\ shares_held[k] = 0

\* row k records a +1 that was rejected for lack of capital
RejectedAt(k) ==
    /\ Processed(k) /\ k >= 1
    /\ signal[k] = 1
    /\ shares_held[k - 1] = 0
    /\ FLess(cash[k - 1], close[k])

\* shares * price, as the program computes it
Worth(shares, price) == FMul(FFromInt(shares), price)

----------------------------------------------------------------------------
\* C1: after backtest(), and at every moment of it, every row i (row 0
\* included) satisfies position_value[i] = shares_held[i] * close[i] and
\* total_equity[i] = cash[i] + shares_held[i] * close[i].
C1_AccountingIdentity ==
    Started =>
        \A k \in Bars :
            /\ position_value[k] = Worth(shares_held[k], close[k])
            /\ total_equity[k] = FAdd(cash[k], Worth(shares_held[k], close[k]))

\* a finished backtest that held shares at a price other than the entry price
C1_Witness ==
    /\ LoopDone /\ ret = "True"
    /\ \E k \in Bars : k >= 2 /\ shares_held[k] > 0 /\ shares_held[k - 1] > 0
                       /\ close[k] # close[k - 1]

\* C2: cash is never negative and shares_held is a non-negative integer at
\* every row; a buy never spends more than the cash of the row before it.
C2_CashNonNegative ==
    Started =>
        /\ \A k \in Bars : FSign(cash[k]) >= 0 /\ shares_held[k] \in Nat
        /\ \A k \in Bars :
              (k >= 1 /\ shares_held[k] > shares_held[k - 1])
                  => FLessEq(Worth(shares_held[k], close[k]), cash[k - 1])

\* C3: single position.  Shares are held at row k only if some row j <= k
\* carries +1 with no -1 in (j, k]; shares_held never grows from one positive
\* value to a larger one and is never negative.
C3_SinglePosition ==
    Started =>
        \A k \in Bars :
            /\ shares_held[k] >= 0
            /\ shares_held[k] > 0 =>
                  \E j \in 0..k :
                      /\ signal[j] = 1
                      /\ \A m \in (j + 1)..k : signal[m] # -1
            /\ (k >= 1 /\ shares_held[k - 1] > 0)
                  => shares_held[k] <= shares_held[k - 1]

\* a position was opened, kept through a second +1, and closed by a -1
C3_Witness ==
    \E k \in Bars :
        /\ BoughtAt(k)
        /\ Processed(k + 2)
        /\ signal[k + 1] = 1 /\ shares_held[k + 1] = shares_held[k]
        /\ signal[k + 2] = -1 /\ shares_held[k + 2] = 0

\* C4: buy transition.  At row i >= 1 with signal +1, the engine flat and
\* floor(cash[i-1] / close[i]) > 0, the iteration sets shares_held[i] to that
\* quotient, takes its cost from cash, turns the engine long, and leaves
\* less cash than one share costs.
C4_BuyCase ==
    /\ AtBar /\ i >= 1
    /\ signal[i] = 1
    /\ current_position = 0
    /\ FTrunc(FDiv(cash[i - 1], close[i])) > 0
C4_BuyTransition ==
    [][C4_BuyCase =>
          /\ shares_held'[i] = FTrunc(FDiv(cash[i - 1], close[i]))
          /\ cash'[i] = FSub(cash[i - 1], Worth(shares_held'[i], close[i]))
          /\ current_position' = 1
          /\ FLess(cash'[i], close[i])]_vars

\* C5: sell transition.  At row i >= 1 with signal -1 and the engine long,
\* the iteration adds shares_held[i-1] * close[i] to cash, sets shares_held[i]
\* to 0 and turns the engine flat: the whole position is sold.
C5_SellCase ==
    /\ AtBar /\ i >= 1
    /\ signal[i] = -1
    /\ current_position = 1
C5_SellTransition ==
    [][C5_SellCase =>
          /\ cash'[i] = FAdd(cash[i - 1], Worth(shares_held[i - 1], close[i]))
          /\ shares_held'[i] = 0
          /\ current_position' = 0]_vars

\* the iteration that sold a position of more than one share has just run
C5_Witness ==
    /\ pc = "loop" /\ i >= 3
    /\ SoldAt(i - 1)
    /\ signal[i - 1] = -1
    /\ shares_held[i - 2] > 1
    /\ cash[i - 1] = FAdd(cash[i - 2], Worth(shares_held[i - 2], close[i - 1]))
    /\ current_position = 0

\* C6: no-op rows.  With signal 0, or +1 while long, or -1 while flat, the
\* iteration copies cash and shares_held from the row before and does not
\* change the flat/long flag.
C6_NoOpCase ==
    /\ AtBar /\ i >= 1
    /\ \/ signal[i] = 0
       \/ signal[i] = 1 /\ current_position = 1
       \/ signal[i] = -1 /\ current_position = 0
C6_NoOpFrame ==
    [][C6_NoOpCase =>
          /\ cash'[i] = cash[i - 1]
          /\ shares_held'[i] = shares_held[i - 1]
          /\ current_position' = current_position]_vars

\* a +1 arrived while long with enough cash left over to buy again, and was
\* ignored
C6_Witness ==
    /\ pc = "loop" /\ i >= 3
    /\ current_position = 1
    /\ signal[i - 1] = 1
    /\ shares_held[i - 2] > 0
    /\ FLessEq(close[i - 1], cash[i - 2])
    /\ shares_held[i - 1] = shares_held[i - 2]
    /\ cash[i - 1] = cash[i - 2]

\* The input of C7: exactly the signals [+1, +1, -1], the price of row 0
\* affordable, and the loop past row 1.
C7_Case ==
    /\ NBars = 3
    /\ signal[0] = 1 /\ signal[1] = 1 /\ signal[2] = -1
    /\ FLessEq(close[0], FFromInt(capital))
    /\ Started /\ i >= 2

\* C7 as stated: the engine buys at row 0 and the second +1 changes nothing
\* (shares_held[1] = shares_held[0] > 0 and cash[1] = cash[0]).
C7_BuysAtBarZero ==
    C7_Case =>
        /\ shares_held[0] > 0
        /\ shares_held[1] = shares_held[0]
        /\ cash[1] = cash[0]

\* C7 amended: row 0 is initialization, so nothing is bought there
\* (shares_held[0] = 0, cash[0] = initial capital); the second +1, at row 1,
\* is the one that buys: shares_held[1] = int(capital / close[1]) and
\* cash[1] = capital - shares_held[1] * close[1].
C7_BuysAtBarOne ==
    C7_Case =>
        /\ shares_held[0] = 0
        /\ cash[0] = FFromInt(capital)
        /\ shares_held[1] = FTrunc(FDiv(FFromInt(capital), close[1]))
        /\ cash[1] = FSub(FFromInt(capital), Worth(shares_held[1], close[1]))

\* the [+1, +1, -1] run is over and the buy of row 1 was sold at row 2
C7_Witness ==
    /\ C7_Case /\ LoopDone
    /\ shares_held[1] > 0
    /\ shares_held[2] = 0

\* C8: row 0 is initialization only.  Whatever signal[0] is, cash[0] is the
\* initial capital, shares_held[0] and position_value[0] are 0, total_equity[0]
\* is the initial capital, and the engine is flat when row 1 is evaluated.
C8_BarZeroInitOnly ==
    Started =>
        /\ cash[0] = FFromInt(capital)
        /\ shares_held[0] = 0
        /\ position_value[0] = FZero
        /\ total_equity[0] = FFromInt(capital)
        /\ (pc = "loop" /\ i = 1) => current_position = 0

\* a finished run whose row 0 carried an affordable +1
C8_Witness ==
    /\ LoopDone /\ ret = "True"
    /\ signal[0] = 1
    /\ FLessEq(close[0], FFromInt(capital))

\* C9: insufficient capital is a silent no-op.  A +1 while flat at a price
\* above the cash leaves cash and shares_held as they were, keeps the engine
\* flat and the loop running without an error; after such a rejection a +1
\* at a price the cash covers still buys.
C9_RejectCase ==
    /\ AtBar /\ i >= 1
    /\ signal[i] = 1
    /\ current_position = 0
    /\ FLess(cash[i - 1], close[i])
C9_RetryCase ==
    /\ AtBar /\ i >= 2
    /\ \E j \in 1..(i - 1) : RejectedAt(j)
    /\ shares_held[i - 1] = 0
    /\ signal[i] = 1
    /\ FLessEq(close[i], cash[i - 1])
C9_InsufficientCapitalNoOp ==
    [][/\ C9_RejectCase =>
             /\ cash'[i] = cash[i - 1]
             /\ shares_held'[i] = shares_held[i - 1]
             /\ current_position' = 0
             /\ pc' = "loop"
             /\ ret' = ret
       /\ C9_RetryCase =>
             /\ shares_held'[i] > 0
             /\ executed'[i] = "buy"
             /\ current_position' = 1]_vars

\* a +1 was rejected for lack of capital and a later +1 bought
C9_Witness ==
    \E j, k \in Bars : j < k /\ RejectedAt(j) /\ BoughtAt(k) /\ signal[k] = 1

\* C10: when the first and the last row share a date (days = 0),
\* calculate_performance() returns a result instead of raising a division
\* fault.
C10_ZeroElapsedDefined ==
    Days = 0 => ret # "ZeroDivisionError"

----------------------------------------------------------------------------
(* Vocabulary of the trade statistics.                                     *)

\* main() has paired the signals
Paired == trades.status = "paired"

\* the row a trade record's date belongs to
RowOf(date) == CHOOSE k \in Bars : index[k] = date

\* the (entry row, exit row) of every trade record, in order
PairedRows ==
    [n \in 1..Len(trades.trade_records) |->
        <<RowOf(trades.trade_records[n].buy_date),
          RowOf(trades.trade_records[n].sell_date)>>]

\* position in rows, from j on, of the first signal equal to v (0 if none)
RECURSIVE FirstFrom(_, _, _)
FirstFrom(rows, j, v) ==
    IF j > Len(rows) THEN 0
    ELSE IF signal[rows[j]] = v THEN j ELSE FirstFrom(rows, j + 1, v)

\* the pairing C11 describes: the first +1 not yet paired goes with the next
\* -1 after it, whatever lies in between, and the scan resumes after that -1
RECURSIVE FirstBuyNextSell(_, _)
FirstBuyNextSell(rows, j) ==
    LET b == FirstFrom(rows, j, 1)
        e == IF b = 0 THEN 0 ELSE FirstFrom(rows, b + 1, -1)
    IN IF b = 0 \/ e = 0 THEN <<>>
       ELSE <<(<<rows[b], rows[e]>>)>> \o FirstBuyNextSell(rows, e + 1)

\* C11: the pairing scan pairs the first not-yet-paired +1 with the next -1
\* that follows it, skipping the signals in between; a +1 with no later -1
\* stays unpaired and no signal is in two pairs.
C11_PairsFirstBuyWithNextSell ==
    Paired => PairedRows = FirstBuyNextSell(SortedSignals, 1)

\* C12: every trade record stands for an executed round trip: its entry row
\* is a row where backtest() bought, its exit row is the row where backtest()
\* sold that position, and the shares were held in between.
C12_RecordsAreExecutedTrades ==
    Paired =>
        \A n \in 1..Len(PairedRows) :
            LET b == PairedRows[n][1]
                e == PairedRows[n][2]
            IN /\ b >= 1 /\ shares_held[b - 1] = 0 /\ shares_held[b] > 0
               /\ shares_held[e - 1] > 0 /\ shares_held[e] = 0
               /\ \A m \in b..(e - 1) : shares_held[m] = shares_held[b]

\* C15: the win rate lies in [0, 100]: wins never exceed the number of
\* pairs, and with no completed pair the rate is exactly 0, not a division
\* by zero.
C15_WinRateInRange ==
    Paired =>
        /\ trades.profitable_trades <= Len(trades.trade_records)
        /\ FLessEq(FZero, trades.win_rate)
        /\ FLessEq(trades.win_rate, Hundred)
        /\ Len(trades.trade_records) = 0 => trades.win_rate = FZero

\* two pairs were formed and both are wins
C15_Witness ==
    /\ Paired
    /\ Len(trades.trade_records) = 2
    /\ trades.profitable_trades = 2


----------------------------------------------------------------------------
(* Vocabulary of the performance summary.                                  *)

\* calculate_performance() has returned its dictionary for the portfolio
\* columns as they stand
Analysed == pc = "idle" /\ ret \in {"True", "dict"} /\ performance.status = "dict"

\* total_equity never falls from one row to the next
EquityNonDecreasing ==
    \A k \in Bars : k >= 1 => FLessEq(total_equity[k - 1], total_equity[k])

\* number of rows 0..k with a non-zero signal
RECURSIVE NonZeroUpTo(_)
NonZeroUpTo(k) ==
    IF k < 0 THEN 0
    ELSE NonZeroUpTo(k - 1) + (IF signal[k] = 0 THEN 0 ELSE 1)

\* number of buys and sells backtest() executed
ExecutedTrades ==
    Cardinality({k \in Bars : k >= 1 /\ (\/ shares_held[k - 1] = 0 /\ shares_held[k] > 0
                                         \/ shares_held[k - 1] > 0 /\ shares_held[k] = 0)})

\* C13: max_drawdown is <= 0, and it is 0 exactly when total_equity is
\* non-decreasing over the whole series; no row's drawdown is positive.
C13_MaxDrawdown ==
    Analysed =>
        /\ FLessEq(performance.max_drawdown, FZero)
        /\ performance.max_drawdown = FZero <=> EquityNonDecreasing
        /\ \A k \in Bars :
              /\ FLessEq(total_equity[k], cummax[k])
              /\ FLessEq(drawdown[k], FZero)
              /\ FLessEq(performance.max_drawdown, drawdown[k])

\* the equity rose above the capital and fell afterwards
C13_Witness ==
    /\ Analysed
    /\ FLess(performance.max_drawdown, FZero)
    /\ \E k \in Bars : FLess(FFromInt(capital), total_equity[k])

\* C16: trade_count is the number of rows with a non-zero signal, rejected
\* triggers included, hence at least the number of executed buys and sells.
C16_TradeCountCountsSignals ==
    Analysed =>
        /\ performance.trade_count = NonZeroUpTo(LastBar)
        /\ performance.trade_count >= ExecutedTrades

\* a summary whose trade_count exceeds the executed trades, of which there
\* is at least one
C16_Witness ==
    /\ Analysed
    /\ ExecutedTrades >= 1
    /\ performance.trade_count > ExecutedTrades

\* C17: prerequisite failures are reported and leave the data unchanged: a
\* call that returned False added no column; and once the missing stage has
\* run, so that the portfolio columns exist, the call succeeds.
C17_PrerequisiteFailures ==
    /\ ret = "False" =>
          columns \cap {"cash", "shares_held", "position_value",
                        "total_equity", "cummax", "drawdown"} = {}
    /\ (Started /\ pc = "idle") => ret \in {"True", "dict"}

\* C19: conservation of value.  An iteration entered flat leaves
\* total_equity as it was in the row before, a buy included; total_equity
\* moves from row to row only by shares_held[i-1] * (close[i] - close[i-1]);
\* and a row without shares has total_equity equal to its cash.
C19_ValueConserved ==
    [][AtBar =>
          /\ current_position = 0 => total_equity'[i] = total_equity[i - 1]
          /\ FSub(total_equity'[i], total_equity[i - 1])
                = FMul(FFromInt(shares_held[i - 1]),
                       FSub(close[i], close[i - 1]))
          /\ shares_held'[i] = 0 => total_equity'[i] = cash'[i]]_vars


----------------------------------------------------------------------------
\* backtest() has been called a second time
Rerun == first_run # <<>>

\* C14: a second backtest() on the same object and the same price and signal
\* columns rebuilds the same cash, shares_held, position_value and
\* total_equity: it restarts flat with cash equal to the initial capital, and
\* every row it writes equals the row of the first run.
C14_RerunIdentical ==
    Rerun =>
        /\ (pc = "loop" /\ i = 1) => (current_position = 0 /\ cash[0] = FFromInt(capital))
        /\ \A k \in Bars :
              k < i => /\ cash[k] = first_run[1][k]
                       /\ shares_held[k] = first_run[2][k]
                       /\ position_value[k] = first_run[3][k]
                       /\ total_equity[k] = first_run[4][k]
        /\ pc = "idle" => portfolio = first_run

\* the second run is over, after a first run that traded and ended long
C14_Witness ==
    /\ Rerun /\ pc = "idle" /\ ret = "True"
    /\ first_run[2][LastBar] > 0
    /\ first_run[1][LastBar] # FFromInt(capital)


----------------------------------------------------------------------------
\* the stages of run() in the order of its code
StageOrder ==
    <<"calculate_indicators", "generate_signals", "backtest", "plot_results">>

\* C18: run() executes calculate_indicators, generate_signals, backtest and
\* plot_results in this order, executes no stage after one that did not
\* return success, returns True only when all four returned success, and
\* with no data returns False before any stage runs.
C18_RunStagesInOrder ==
    /\ Len(stages) <= 4
    /\ \A k \in 1..Len(stages) : stages[k].stage = StageOrder[k]
    /\ \A k \in 1..(Len(stages) - 1) : stages[k].result = "True"
    /\ (stages # <<>> /\ stages[Len(stages)].result # "True")
          => run_pc \in {"returned", "raised"} /\ run_ret # "True"
    /\ (called /\ run_pc # "none") => Len(stages) >= 2
    /\ run_ret = "True" <=>
          (Len(stages) = 4 /\ \A k \in 1..4 : stages[k].result = "True")
    /\ run_ret = "False" =>
          \/ stages = <<>> /\ columns = {}
          \/ stages # <<>> /\ stages[Len(stages)].result = "False"
    /\ (columns = {} /\ run_pc # "none") =>
          (run_pc = "returned" /\ run_ret = "False" /\ stages = <<>>)

\* run() returned True after a backtest that bought
C18_Witness ==
    /\ run_pc = "returned" /\ run_ret = "True"
    /\ Len(stages) = 4
    /\ \E k \in Bars : shares_held[k] > 0

----------------------------------------------------------------------------
\* generate_signals() has written the signal column
Generated == stages # <<>> /\ stages[1].result = "True"

\* close[k-1] <= lower[k-1] and close[k] > lower[k]
LowerCross(k) ==
    /\ k >= 1
    /\ AtOrBelow(close[k - 1], lower[k - 1])
    /\ Above(close[k], lower[k])

\* close[k-1] <= upper[k-1] and close[k] > upper[k]
UpperCross(k) ==
    /\ k >= 1
    /\ AtOrBelow(close[k - 1], upper[k - 1])
    /\ Above(close[k], upper[k])

\* C20: after BollingerStrategy.generate_signals() a bar with an upward
\* crossing of the lower band carries +1, also when it crosses the upper
\* band on the same bar; a bar with an upward crossing of the upper band
\* only carries -1; every other bar carries 0.
C20_BollingerSignals ==
    Generated =>
       /\ DOMAIN signal = DOMAIN close
       /\ \A k \in DOMAIN signal :
             /\ LowerCross(k) => signal[k] = 1
             /\ (UpperCross(k) /\ ~LowerCross(k)) => signal[k] = 0 - 1
             /\ (~UpperCross(k) /\ ~LowerCross(k)) => signal[k] = 0

\* a frame with a bar that crosses both bands, after a NaN row was dropped
C20_Witness ==
    /\ Generated
    /\ 0 \in DOMAIN index
    /\ index[0] > 0
    /\ \E k \in DOMAIN signal :
          LowerCross(k) /\ UpperCross(k) /\ signal[k] = 1

----------------------------------------------------------------------------
\* buys and sells backtest() has executed on rows 0..k
Buys(k) == Cardinality({j \in 0..k : executed[j] = "buy"})
Sells(k) == Cardinality({j \in 0..k : executed[j] = "sell"})

\* C21: the buys and sells backtest() executes alternate, starting with a
\* buy: at every row it has processed, the buys executed so far minus the
\* sells executed so far is 0 or 1, and it is 1 exactly when shares_held at
\* that row is > 0.
C21_BuysSellsAlternate ==
    \A k \in Bars :
        Processed(k) =>
            /\ Buys(k) - Sells(k) \in {0, 1}
            /\ Buys(k) - Sells(k) = 1 <=> shares_held[k] > 0

\* a finished run that bought, sold and bought again
C21_Witness ==
    /\ LoopDone
    /\ Buys(LastBar) = 2
    /\ Sells(LastBar) = 1
    /\ shares_held[LastBar] > 0

----------------------------------------------------------------------------
\* the iteration for row i is about to enter the sell branch (line 86)
EntersSellBranch ==
    /\ AtBar
    /\ ~BuyGuard(Iloc(signal, i), current_position)
    /\ SellGuard(Iloc(signal, i), current_position)

\* C23: when an iteration of backtest() has ended (and when the loop is
\* entered), current_position is 1 exactly when shares_held of the row just
\* written is > 0 and 0 exactly when it is 0; so whenever the sell branch is
\* entered, shares_to_sell, the shares_held carried from the row before,
\* is > 0.
C23_FlagMatchesShares ==
    Started =>
        /\ current_position \in {0, 1}
        /\ current_position = 1 <=> shares_held[i - 1] > 0
        /\ current_position = 0 <=> shares_held[i - 1] = 0
        /\ EntersSellBranch => Iloc(shares_held, i - 1) > 0

\* the iteration that just ended sold, and the one before it had bought
C23_Witness ==
    /\ Started
    /\ i >= 3
    /\ executed[i - 1] = "sell"
    /\ executed[i - 2] = "buy"
    /\ current_position = 0
    /\ shares_held[i - 1] = 0

----------------------------------------------------------------------------
\* C22: both signal generators write only -1, 0 and +1, and leave the first
\* bar of the frame they hand to backtest() at 0: every non-zero signal is
\* on a row that the loop of backtest() visits.
C22_FirstBarSignalZero ==
    Generated =>
        /\ DOMAIN signal = DOMAIN close
        /\ \A k \in DOMAIN signal : signal[k] \in {0 - 1, 0, 1}
        /\ 0 \in DOMAIN signal => signal[0] = 0
        /\ \A k \in DOMAIN signal : signal[k] # 0 => k >= LoopStart

\* the MACD generator put a golden cross on a row backtest() visits (DIF
\* and DEA start equal, so the first cross is on the third row at the
\* earliest)
C22_Witness ==
    /\ Generated
    /\ strategy = "macd"
    /\ NBars >= 3
    /\ signal[0] = 0
    /\ ZCmp(dif[1], dea[1]) < 0
    /\ signal[2] = 1

====
